---------------------------- MODULE Spec2Model ----------------------------
(***************************************************************************)
(* Page-block isolation (mm/page_isolation.c, CMA variants).               *)
(*                                                                         *)
(* One zone.  A page is named by its frame number (pfn_to_page and         *)
(* page_to_pfn are pointer arithmetic), NULL is -1.  The callers of the    *)
(* facility run the three range operations step by step; the buddy         *)
(* allocator (page_alloc.c, not part of page_isolation.c) is modelled by   *)
(* its free path and its allocation path.                                  *)
(***************************************************************************)
EXTENDS Integers, Sequences, FiniteSets, TLC

\* ------------------------------------------------------------ bounds ----
pageblock_order == 1
NrBlocks == 2
MaxCalls == 2
MaxAllocOps == 3
MaxCallsTwo == 1

\* --------------------------------------------------------- constants ----
pageblock_nr_pages == 2 ^ pageblock_order
NrFrames == NrBlocks * pageblock_nr_pages
Frames == 0 .. (NrFrames - 1)
Blocks == 0 .. (NrBlocks - 1)

NULL == -1
EBUSY == 16

MIGRATE_UNMOVABLE == "UNMOVABLE"
MIGRATE_RECLAIMABLE == "RECLAIMABLE"
MIGRATE_MOVABLE == "MOVABLE"
MIGRATE_CMA == "CMA"
MIGRATE_ISOLATE == "ISOLATE"
MigrateTypes == {MIGRATE_UNMOVABLE, MIGRATE_RECLAIMABLE, MIGRATE_MOVABLE,
                 MIGRATE_CMA, MIGRATE_ISOLATE}

\* the callers of the facility; Spec runs the first one only
Procs == {"cma", "hotplug"}

VARIABLES
  pfn_valid,      \* [Frames -> BOOLEAN], pfn_valid_within(pfn)
  PageHWPoison,   \* set of hardware-poisoned frames (in use, never freed)
  pinned,         \* set of frames holding an unmovable, pinned page
  pageblock_mt,   \* [Blocks -> MigrateTypes], the pageblock label
  pages,          \* [Frames -> page record]
  nr_free,        \* [MigrateTypes -> Int], per-type free-page counter
  zone_lock,      \* "free" or the holder of zone->lock
  pc,             \* [Procs -> position]
  loc,            \* [Procs -> locals of the running call; repaired: extents moved by the walk]
  calls,          \* [Procs -> number of calls made]
  pre,            \* [Procs -> labels, pages and counters when the running call began]
  last,           \* [Procs -> the previous call of the thread]
  isolated,       \* pageblocks of ranges isolated with result 0, undo not begun
  stolen,         \* frames handed out by the allocator while in `isolated'
  alloc_ops       \* number of allocator steps taken

statics == <<pfn_valid, PageHWPoison, pinned>>
zone == <<pageblock_mt, pages, nr_free>>
ghost == <<pre, last, isolated, stolen, alloc_ops>>
vars == <<pfn_valid, PageHWPoison, pinned, pageblock_mt, pages, nr_free,
          zone_lock, pc, loc, calls, pre, last, isolated, stolen, alloc_ops>>

\* ----------------------------------------------------------- helpers ----
Min(S) == CHOOSE x \in S : \A y \in S : x <= y

BlockOf(pfn) == pfn \div pageblock_nr_pages
BlockStart(b) == b * pageblock_nr_pages
BlockFrames(b) == BlockStart(b) .. (BlockStart(b) + pageblock_nr_pages - 1)
RangeFrames(s, e) == {f \in Frames : s <= f /\ f < e}
RangeBlocks(s, e) == {b \in Blocks : s <= BlockStart(b) /\ BlockStart(b) < e}

\* the page record of a frame
PageBuddy(pg, f) == pg[f].st = "buddy"
page_order(pg, f) == pg[f].order
page_count(pg, f) == IF pg[f].st = "used" THEN 1 ELSE 0
get_freepage_migratetype(pg, f) == pg[f].mt

get_pageblock_migratetype(page) == pageblock_mt[BlockOf(page)]

\* the frames of the buddy extent headed by f
Extent(pg, f) == f .. (f + 2 ^ pg[f].order - 1)
\* heads of buddy-free extents
Heads(pg) == {f \in Frames : pg[f].st = "buddy"}

RECURSIVE SumOrders(_, _)
SumOrders(pg, S) ==
  IF S = {} THEN 0
  ELSE LET f == Min(S) IN 2 ^ pg[f].order + SumOrders(pg, S \ {f})

\* number of frames on the free lists of type mt
OnList(pg, mt) == SumOrders(pg, {f \in Heads(pg) : pg[f].list = mt})

\* ------------------------------------------- page_isolation.c: helper ---
\* a helper that looks at the first frame only
first_valid_page_head_only(pfn, nr_pages) ==
  IF pfn \in Frames /\ pfn_valid[pfn] THEN pfn ELSE NULL

\* lines 10-23
__first_valid_page(pfn, nr_pages) ==
  LET S == {i \in 0 .. (nr_pages - 1) :
              (pfn + i) \in Frames /\ pfn_valid[pfn + i]}
  IN IF S = {} THEN NULL ELSE pfn + Min(S)

\* a loop that does not advance
NextPageblock_stay(pfn) == pfn

\* a loop that steps over every other pageblock
NextPageblock_skip(pfn) == pfn + 2 * pageblock_nr_pages

\* lines 48-50, 190-192, 222-224, 320: pfn += pageblock_nr_pages
NextPageblock(pfn) == pfn + pageblock_nr_pages

\* ------------------------------------------------ allocator primitives --
\* move_freepages(zone, first, last, mt): every buddy extent that starts in
\* [first..last] goes to mt's free list and gets the hint mt
MovedHeads(pg, first, lst) ==
  {f \in Heads(pg) : first <= f /\ f <= lst /\ pfn_valid[f]}

move_freepages(pg, first, lst, mt) ==
  [f \in Frames |->
     IF f \in MovedHeads(pg, first, lst)
     THEN [pg[f] EXCEPT !.list = mt, !.mt = mt]
     ELSE pg[f]]

move_freepages_count(pg, first, lst) == SumOrders(pg, MovedHeads(pg, first, lst))

move_freepages_block(pg, page, mt) ==
  move_freepages(pg, BlockStart(BlockOf(page)),
                 BlockStart(BlockOf(page)) + pageblock_nr_pages - 1, mt)

move_freepages_block_count(pg, page) ==
  move_freepages_count(pg, BlockStart(BlockOf(page)),
                       BlockStart(BlockOf(page)) + pageblock_nr_pages - 1)

\* __mod_zone_freepage_state(zone, nr_pages, mt)
__mod_zone_freepage_state(nr, nr_pages, mt) ==
  [nr EXCEPT ![mt] = @ + nr_pages]

\* has_unmovable_pages(zone, page, skip): a pinned page, or a poisoned page
\* the caller does not skip, is in use in the pageblock of page
has_unmovable_pages(page, skip) ==
  \E f \in BlockFrames(BlockOf(page)) :
     /\ pfn_valid[f]
     /\ pages[f].st = "used"
     /\ \/ f \in pinned
        \/ f \in PageHWPoison /\ ~skip


\* set_migratetype_isolate_cma(page, skip), one critical section of the
\* allocator: BUSY without any change when the pageblock holds an unmovable
\* page, else label ISOLATE, free pages to the ISOLATE list, counter of the
\* old type lowered by the number of frames moved
set_isolate_fails(page, skip) == has_unmovable_pages(page, skip)

set_isolate_label(old) == MIGRATE_ISOLATE

\* ------------------------------------------------------------- Init -----
NoPage == [st |-> "none", order |-> 0, mt |-> "none", list |-> "none"]

IdleLoc == [op |-> "none", start_pfn |-> 0, end_pfn |-> 0,
            migratetype |-> "none", skip |-> FALSE, pfn |-> 0,
            undo_pfn |-> 0, page |-> NULL, ret |-> 0, retpc |-> "idle",
            failed_pfn |-> NULL, repaired |-> {}]

NoPre == [mt |-> <<>>, pages |-> <<>>, nr |-> <<>>]

NoCall == [op |-> "none", start_pfn |-> 0, end_pfn |-> 0,
           migratetype |-> "none", ret |-> 0, pre |-> <<>>,
           pre_pages |-> <<>>, pre_nr |-> <<>>,
           quiet |-> FALSE, snap |-> <<>>]

\* holes of the memory map: none, or a run of absent frames that begins at
\* the start of a pageblock and is at most one pageblock long
AbsentRuns ==
  {{}} \cup {BlockStart(b) .. (BlockStart(b) + len - 1) :
               b \in Blocks, len \in 1 .. pageblock_nr_pages}

\* the frames of the aligned 2^k group of f
AlignedGroup(f, k) == {g \in Frames : g \div (2 ^ k) = f \div (2 ^ k)}
\* the order of the largest free aligned group around f
GroupOrder(f, free) ==
  CHOOSE k \in 0 .. pageblock_order :
    /\ AlignedGroup(f, k) \subseteq free
    /\ \A j \in (k + 1) .. pageblock_order : ~(AlignedGroup(f, j) \subseteq free)

InitPage(f, absent, busy, labels) ==
  IF f \in absent THEN NoPage
  ELSE IF f \in busy
       THEN [st |-> "used", order |-> 0, mt |-> "none", list |-> "none"]
  ELSE LET free == Frames \ (absent \cup busy)
           k == GroupOrder(f, free)
           mt == labels[BlockOf(f)]
       IN IF f % (2 ^ k) = 0
          THEN [st |-> "buddy", order |-> k, mt |-> mt, list |-> mt]
          ELSE [st |-> "tail", order |-> 0, mt |-> mt, list |-> "none"]

\* A pageblock starts MOVABLE, or ISOLATE as an earlier isolation of it left
\* it: its free pages on the ISOLATE list and not counted, no pinned page in
\* it.  A pageblock without a valid frame was never isolated.
InitLabels(absent, pin) ==
  {labels \in [Blocks -> {MIGRATE_MOVABLE, MIGRATE_ISOLATE}] :
     \A b \in Blocks :
        labels[b] = MIGRATE_ISOLATE =>
          /\ ~(BlockFrames(b) \subseteq absent)
          /\ BlockFrames(b) \cap pin = {}}

Init ==
  \E absent \in AbsentRuns :
  \E busy \in {S \in SUBSET (Frames \ absent) : Cardinality(S) <= 1} :
  \E pin \in SUBSET busy, poison \in SUBSET busy :
  \E labels \in InitLabels(absent, pin) :
    /\ pin = {} \/ poison = {}
    /\ pfn_valid = [f \in Frames |-> f \notin absent]
    /\ pinned = pin
    /\ PageHWPoison = poison
    /\ pageblock_mt = labels
    /\ pages = [f \in Frames |-> InitPage(f, absent, busy, labels)]
    /\ nr_free = [mt \in MigrateTypes |->
                    IF mt = MIGRATE_ISOLATE THEN 0
                    ELSE Cardinality({f \in Frames \ (absent \cup busy) :
                                        labels[BlockOf(f)] = mt})]
    /\ zone_lock = "free"
    /\ pc = [t \in Procs |-> "idle"]
    /\ loc = [t \in Procs |-> IdleLoc]
    /\ calls = [t \in Procs |-> 0]
    /\ pre = [t \in Procs |-> NoPre]
    /\ last = [t \in Procs |-> NoCall]
    /\ isolated = {}
    /\ stolen = {}
    /\ alloc_ops = 0

\* the aligned ranges a caller may pass: the non-empty ones and an empty one
Bounds == {BlockStart(b) : b \in 0 .. NrBlocks}
Ranges == {r \in Bounds \X Bounds : r[1] < r[2] \/ r = <<0, 0>>}
UndoTypes == {MIGRATE_MOVABLE, MIGRATE_CMA}
\* skip_hwpoisoned_pages is read only where a page is poisoned
SkipFlags == IF PageHWPoison = {} THEN {FALSE} ELSE BOOLEAN

\* ------------------------------------------------- calls of the facility
Call(t, op, s, e, mt, skip) ==
  /\ pc[t] = "idle"
  /\ calls[t] < MaxCalls
  /\ s <= e
  /\ calls' = [calls EXCEPT ![t] = @ + 1]
  /\ loc' = [loc EXCEPT ![t] = [IdleLoc EXCEPT !.op = op, !.start_pfn = s,
                                  !.end_pfn = e, !.migratetype = mt,
                                  !.skip = skip, !.pfn = s]]
  /\ pre' = [pre EXCEPT ![t] = [mt |-> pageblock_mt, pages |-> pages,
                                 nr |-> nr_free]]
  /\ UNCHANGED <<statics, zone, zone_lock, last, stolen, alloc_ops>>

start_isolate_page_range_cma(t) ==
  \E r \in Ranges, mt \in UndoTypes, skip \in SkipFlags :
    /\ Call(t, "isolate", r[1], r[2], mt, skip)
    /\ pc' = [pc EXCEPT ![t] = "isolate_loop"]
    /\ isolated' = isolated \ RangeBlocks(r[1], r[2])

undo_isolate_page_range_cma(t) ==
  \E r \in Ranges, mt \in UndoTypes \cup {MIGRATE_ISOLATE} :
    /\ Call(t, "undo", r[1], r[2], mt, FALSE)
    /\ pc' = [pc EXCEPT ![t] = "undo_loop"]
    /\ isolated' = isolated \ RangeBlocks(r[1], r[2])

test_pages_isolated_cma(t) ==
  \E r \in Ranges, skip \in SkipFlags :
    /\ Call(t, "test", r[1], r[2], "none", skip)
    /\ pc' = [pc EXCEPT ![t] = "test_labels"]
    /\ isolated' = isolated

\* the call has returned loc[t].ret; the caller takes the result
Return(t) ==
  /\ pc[t] = "done"
  /\ pc' = [pc EXCEPT ![t] = "idle"]
  /\ last' = [last EXCEPT ![t] =
                [op |-> loc[t].op, start_pfn |-> loc[t].start_pfn,
                 end_pfn |-> loc[t].end_pfn,
                 migratetype |-> loc[t].migratetype, ret |-> loc[t].ret,
                 pre |-> pre[t].mt, pre_pages |-> pre[t].pages,
                 pre_nr |-> pre[t].nr, quiet |-> TRUE,
                 snap |-> <<pageblock_mt, pages, nr_free>>]]
  /\ isolated' = IF loc[t].op = "isolate" /\ loc[t].ret = 0
                 THEN isolated \cup RangeBlocks(loc[t].start_pfn, loc[t].end_pfn)
                 ELSE isolated
  /\ loc' = [loc EXCEPT ![t] = IdleLoc]
  /\ pre' = [pre EXCEPT ![t] = NoPre]
  /\ UNCHANGED <<statics, zone, zone_lock, calls, stolen, alloc_ops>>

\* ------------------------------------- start_isolate_page_range_cma -----
\* lines 190-201: one pageblock of the forward pass
IsolateLoop(t) ==
  LET l == loc[t]
      page == __first_valid_page(l.pfn, pageblock_nr_pages)
      b == BlockOf(page)
      n == move_freepages_block_count(pages, page)
  IN
  /\ pc[t] = "isolate_loop"
  /\ IF l.pfn >= l.end_pfn
     THEN /\ loc' = [loc EXCEPT ![t].ret = 0]
          /\ pc' = [pc EXCEPT ![t] = "done"]
          /\ UNCHANGED zone
     ELSE IF page = NULL
     THEN /\ loc' = [loc EXCEPT ![t].pfn = NextPageblock(l.pfn)]
          /\ UNCHANGED <<pc, zone>>
     ELSE /\ zone_lock = "free"
          /\ IF set_isolate_fails(page, l.skip)
             THEN /\ loc' = [loc EXCEPT ![t].undo_pfn = l.pfn,
                                        ![t].pfn = l.start_pfn]
                  /\ pc' = [pc EXCEPT ![t] = "isolate_undo"]
                  /\ UNCHANGED zone
             ELSE /\ pageblock_mt' = [pageblock_mt EXCEPT
                                        ![b] = set_isolate_label(@)]
                  /\ pages' = move_freepages_block(pages, page, MIGRATE_ISOLATE)
                  /\ nr_free' = __mod_zone_freepage_state(nr_free, 0 - n,
                                                          pageblock_mt[b])
                  /\ loc' = [loc EXCEPT ![t].pfn = NextPageblock(l.pfn)]
                  /\ UNCHANGED pc
  /\ UNCHANGED <<statics, zone_lock, calls, ghost>>

\* lines 202-208: the rollback hands pfn_to_page(pfn) to unset
IsolateUndo(t) ==
  LET l == loc[t] IN
  /\ pc[t] = "isolate_undo"
  /\ IF l.pfn < l.undo_pfn
     THEN /\ loc' = [loc EXCEPT ![t].page = l.pfn, ![t].retpc = "isolate_undo"]
          /\ pc' = [pc EXCEPT ![t] = "unset_lock"]
     ELSE /\ loc' = [loc EXCEPT ![t].ret = 0 - EBUSY]
          /\ pc' = [pc EXCEPT ![t] = "done"]
  /\ UNCHANGED <<statics, zone, zone_lock, calls, ghost>>

\* line 206 when pfn is an absent frame: pfn_to_page(pfn) is not the page of
\* a frame, and what unset reads through it is undefined; besides acting on
\* the pageblock of pfn (IsolateUndo) the call may find no ISOLATE label and
\* leave the zone alone
IsolateUndoAbsent(t) ==
  LET l == loc[t] IN
  /\ pc[t] = "isolate_undo"
  /\ l.pfn < l.undo_pfn
  /\ ~pfn_valid[l.pfn]
  /\ loc' = [loc EXCEPT ![t].pfn = NextPageblock(l.pfn)]
  /\ UNCHANGED <<statics, zone, zone_lock, pc, calls, ghost>>

\* ----------------------------------------------------- the zone lock ----
\* an unlock that leaves the lock with its holder
spin_unlock_kept(t) == t

\* lines 155, 336: spin_lock_irqsave(&zone->lock, flags), once the lock is free
spin_lock_irqsave(t) == t

\* lines 162, 339: spin_unlock_irqrestore(&zone->lock, flags)
spin_unlock_irqrestore(t) == "free"

\* ------------------------------------- unset_migratetype_isolate_cma ----
\* line 155
UnsetLock(t) ==
  /\ pc[t] = "unset_lock"
  /\ zone_lock = "free"
  /\ zone_lock' = spin_lock_irqsave(t)
  /\ pc' = [pc EXCEPT ![t] = "unset_body"]
  /\ UNCHANGED <<statics, zone, loc, calls, ghost>>

\* line 160 with a fixed type in place of the argument
unset_label_fixed(migratetype) == MIGRATE_MOVABLE

\* line 160 left out: the label stays ISOLATE
unset_label_kept(migratetype) == MIGRATE_ISOLATE

\* line 160
unset_label(migratetype) == migratetype

\* unset_isolate without the check of line 156
unset_bails_never(page) == FALSE

\* lines 156-157: under the lock, the label is no longer ISOLATE
unset_bails(page) == get_pageblock_migratetype(page) # MIGRATE_ISOLATE

\* line 159 with the count dropped
unset_counted_none(nr_pages) == 0

\* line 159: the counter takes the count that move_freepages_block returned
unset_counted(nr_pages) == nr_pages

\* lines 156-160
UnsetBody(t) ==
  LET l == loc[t]
      n == move_freepages_block_count(pages, l.page)
  IN
  /\ pc[t] = "unset_body"
  /\ IF unset_bails(l.page)
     THEN UNCHANGED zone
     ELSE /\ pages' = move_freepages_block(pages, l.page, l.migratetype)
          /\ nr_free' = __mod_zone_freepage_state(nr_free, unset_counted(n),
                                                  l.migratetype)
          /\ pageblock_mt' = [pageblock_mt EXCEPT ![BlockOf(l.page)] =
                                unset_label(l.migratetype)]
  /\ pc' = [pc EXCEPT ![t] = "unset_unlock"]
  /\ UNCHANGED <<statics, zone_lock, loc, calls, ghost>>

\* line 162, and the caller's loop moves on to the next pageblock
UnsetUnlock(t) ==
  /\ pc[t] = "unset_unlock"
  /\ zone_lock' = spin_unlock_irqrestore(t)
  /\ loc' = [loc EXCEPT ![t].pfn = NextPageblock(loc[t].pfn)]
  /\ pc' = [pc EXCEPT ![t] = loc[t].retpc]
  /\ UNCHANGED <<statics, zone, calls, ghost>>

\* -------------------------------------- undo_isolate_page_range_cma -----
\* line 226 with the label test inverted
undo_skips_inverted(page) ==
  page = NULL \/ get_pageblock_migratetype(page) = MIGRATE_ISOLATE

\* line 226
undo_skips(page) ==
  page = NULL \/ get_pageblock_migratetype(page) # MIGRATE_ISOLATE

\* lines 222-230
UndoLoop(t) ==
  LET l == loc[t]
      page == __first_valid_page(l.pfn, pageblock_nr_pages)
  IN
  /\ pc[t] = "undo_loop"
  /\ IF l.pfn >= l.end_pfn
     THEN /\ loc' = [loc EXCEPT ![t].ret = 0]
          /\ pc' = [pc EXCEPT ![t] = "done"]
     ELSE IF undo_skips(page)
     THEN /\ loc' = [loc EXCEPT ![t].pfn = NextPageblock(l.pfn)]
          /\ UNCHANGED pc
     ELSE /\ loc' = [loc EXCEPT ![t].page = page, ![t].retpc = "undo_loop"]
          /\ pc' = [pc EXCEPT ![t] = "unset_lock"]
  /\ UNCHANGED <<statics, zone, zone_lock, calls, ghost>>


\* ------------------------------------------ test_pages_isolated_cma -----
\* a label check that stops nowhere
label_check_stops_never(page) == FALSE

\* line 322: the label check stops at this pageblock
label_check_stops(page) ==
  page # NULL /\ get_pageblock_migratetype(page) # MIGRATE_ISOLATE

\* line 329 without the test of page
label_check_busy_no_null(pfn, end_pfn, page) == pfn < end_pfn

\* line 329
label_check_busy(pfn, end_pfn, page) == pfn < end_pfn \/ page = NULL

\* lines 320-333: the label check, without the lock
TestLabels(t) ==
  LET l == loc[t]
      page == __first_valid_page(l.pfn, pageblock_nr_pages)
      first == __first_valid_page(l.start_pfn, l.end_pfn - l.start_pfn)
  IN
  /\ pc[t] = "test_labels"
  /\ IF l.pfn < l.end_pfn /\ ~label_check_stops(page)
     THEN /\ loc' = [loc EXCEPT ![t].pfn = NextPageblock(l.pfn)]
          /\ UNCHANGED pc
     ELSE IF label_check_busy(l.pfn, l.end_pfn, first)
          THEN /\ loc' = [loc EXCEPT ![t].ret = 0 - EBUSY]
               /\ pc' = [pc EXCEPT ![t] = "done"]
          ELSE /\ loc' = [loc EXCEPT ![t].page = first]
               /\ pc' = [pc EXCEPT ![t] = "test_lock"]
  /\ UNCHANGED <<statics, zone, zone_lock, calls, ghost>>

\* line 336, and the call of line 337 with pfn = start_pfn
TestLock(t) ==
  /\ pc[t] = "test_lock"
  /\ zone_lock = "free"
  /\ zone_lock' = spin_lock_irqsave(t)
  /\ loc' = [loc EXCEPT ![t].pfn = loc[t].start_pfn]
  /\ pc' = [pc EXCEPT ![t] = "test_walk"]
  /\ UNCHANGED <<statics, zone, calls, ghost>>

\* a walk that never repairs
needs_repair_never(pg, page) == FALSE

\* line 260: a buddy extent on the wrong list
needs_repair(pg, page) == get_freepage_migratetype(pg, page) # MIGRATE_ISOLATE

\* lines 270-273 without the test of the hint and of the skip flag
passes_unbuddied_any(pg, page, skip) ==
  page_count(pg, page) = 0 \/ page \in PageHWPoison

\* lines 270-273: a frame that is not buddy and still passes
passes_unbuddied(pg, page, skip) ==
  \/ page_count(pg, page) = 0
       /\ get_freepage_migratetype(pg, page) = MIGRATE_ISOLATE
  \/ skip /\ page \in PageHWPoison

\* line 268 stepping one frame
buddy_advance_one(pg, page) == 1

\* line 268: pfn += 1 << page_order(page)
buddy_advance(pg, page) == 2 ^ page_order(pg, page)

\* line 295 writing the frame after the one that stopped the walk
failed_pfn_next(pfn) == pfn + 1

\* line 295: *pfailed_pfn = pfn
failed_pfn_written(pfn) == pfn

\* lines 246-298: one iteration of __test_page_isolated_in_pageblock_cma
TestWalk(t) ==
  LET l == loc[t]
      page == l.pfn
      end_page == page + 2 ^ page_order(pages, page) - 1
  IN
  /\ pc[t] = "test_walk"
  /\ IF l.pfn >= l.end_pfn
     THEN /\ pc' = [pc EXCEPT ![t] = "test_unlock"]
          /\ UNCHANGED <<loc, pages>>
     ELSE IF ~pfn_valid[l.pfn]
     THEN /\ loc' = [loc EXCEPT ![t].pfn = l.pfn + 1]
          /\ UNCHANGED <<pc, pages>>
     ELSE IF PageBuddy(pages, page)
     THEN /\ pages' = IF needs_repair(pages, page)
                      THEN move_freepages(pages, page, end_page, MIGRATE_ISOLATE)
                      ELSE pages
          /\ loc' = [loc EXCEPT ![t].pfn = l.pfn + buddy_advance(pages, page),
                                ![t].repaired = IF needs_repair(pages, page)
                                                THEN @ \cup {page} ELSE @]
          /\ UNCHANGED pc
     ELSE IF passes_unbuddied(pages, page, l.skip)
     THEN /\ loc' = [loc EXCEPT ![t].pfn = l.pfn + 1]
          /\ UNCHANGED <<pc, pages>>
     ELSE /\ loc' = [loc EXCEPT ![t].failed_pfn = failed_pfn_written(l.pfn)]
          /\ pc' = [pc EXCEPT ![t] = "test_unlock"]
          /\ UNCHANGED pages
  /\ UNCHANGED <<statics, pageblock_mt, nr_free, zone_lock, calls, ghost>>

\* lines 299-304 and 340
test_result(pfn, end_pfn) == IF pfn < end_pfn THEN 0 - EBUSY ELSE 0

\* lines 339-340
TestUnlock(t) ==
  /\ pc[t] = "test_unlock"
  /\ zone_lock' = spin_unlock_irqrestore(t)
  /\ loc' = [loc EXCEPT ![t].ret = test_result(loc[t].pfn, loc[t].end_pfn)]
  /\ pc' = [pc EXCEPT ![t] = "done"]
  /\ UNCHANGED <<statics, zone, calls, ghost>>

\* ------------------------------------------------- the buddy allocator --
\* an allocator step ends the quiet period after the callers' last calls
Disturbed ==
  [t \in Procs |-> [last[t] EXCEPT !.quiet = FALSE, !.snap = <<>>,
                                   !.pre_pages = <<>>, !.pre_nr = <<>>]]

\* free path, before the zone lock: the refcount has dropped to 0 and the
\* page is stamped with the label its pageblock has now
FreeStart(f) ==
  /\ pfn_valid[f]
  /\ pages[f].st = "used"
  /\ f \notin pinned \cup PageHWPoison
  /\ pages' = [pages EXCEPT ![f] = [st |-> "freeing", order |-> 0,
                                    mt |-> get_pageblock_migratetype(f),
                                    list |-> "none"]]
  /\ last' = Disturbed
  /\ alloc_ops < MaxAllocOps
  /\ alloc_ops' = alloc_ops + 1
  /\ UNCHANGED <<statics, pageblock_mt, nr_free, zone_lock, pc, loc, calls,
                 pre, isolated, stolen>>

\* free path, under the zone lock: the page goes to the free list of its
\* stamp; pages on the ISOLATE list are not counted
FreeFinish(f) ==
  /\ pages[f].st = "freeing"
  /\ zone_lock = "free"
  /\ pages' = [pages EXCEPT ![f].st = "buddy", ![f].list = pages[f].mt]
  /\ nr_free' = IF pages[f].mt = MIGRATE_ISOLATE THEN nr_free
                ELSE __mod_zone_freepage_state(nr_free, 1, pages[f].mt)
  /\ last' = Disturbed
  /\ alloc_ops < MaxAllocOps
  /\ alloc_ops' = alloc_ops + 1
  /\ UNCHANGED <<statics, pageblock_mt, zone_lock, pc, loc, calls,
                 pre, isolated, stolen>>

\* allocation, under the zone lock: a buddy extent of a list other than
\* ISOLATE is handed out
Alloc(f) ==
  /\ PageBuddy(pages, f)
  /\ pages[f].list # MIGRATE_ISOLATE
  /\ zone_lock = "free"
  /\ pages' = [g \in Frames |->
                 IF g \in Extent(pages, f)
                 THEN [st |-> "used", order |-> 0, mt |-> pages[g].mt,
                       list |-> "none"]
                 ELSE pages[g]]
  /\ nr_free' = __mod_zone_freepage_state(nr_free, 0 - 2 ^ pages[f].order,
                                          pages[f].list)
  /\ stolen' = stolen \cup {g \in Extent(pages, f) : BlockOf(g) \in isolated}
  /\ last' = Disturbed
  /\ alloc_ops < MaxAllocOps
  /\ alloc_ops' = alloc_ops + 1
  /\ UNCHANGED <<statics, pageblock_mt, zone_lock, pc, loc, calls,
                 pre, isolated>>

\* ------------------------------------------------------ specification ---
Step(t) ==
  \/ start_isolate_page_range_cma(t)
  \/ undo_isolate_page_range_cma(t)
  \/ test_pages_isolated_cma(t)
  \/ IsolateLoop(t)
  \/ IsolateUndo(t)
  \/ IsolateUndoAbsent(t)
  \/ UnsetLock(t)
  \/ UnsetBody(t)
  \/ UnsetUnlock(t)
  \/ UndoLoop(t)
  \/ TestLabels(t)
  \/ TestLock(t)
  \/ TestWalk(t)
  \/ TestUnlock(t)
  \/ Return(t)

Allocator ==
  \E f \in Frames : FreeStart(f) \/ FreeFinish(f) \/ Alloc(f)

\* the calls of one caller run one after the other, and the free path of the
\* allocator runs between them
FreeBetweenCalls ==
  /\ pc["cma"] = "idle"
  /\ \E f \in Frames : FreeStart(f) \/ FreeFinish(f)

Next == Step("cma") \/ FreeBetweenCalls

Spec == Init /\ [][Next]_vars

\* the allocator runs at any moment of a call; the caller works on the whole
\* zone and restores MOVABLE
RaceArgs ==
  loc["cma"].op # "none" =>
    /\ loc["cma"].start_pfn = 0
    /\ loc["cma"].end_pfn = NrFrames
    /\ loc["cma"].migratetype \in {"none", MIGRATE_MOVABLE}

NextRace == (Step("cma") /\ RaceArgs') \/ Allocator

SpecRace == Init /\ [][NextRace]_vars

\* two callers at once, each on the whole zone and restoring MOVABLE, each
\* making MaxCallsTwo calls; the allocator is at rest
TwoArgs ==
  \A t \in Procs :
    /\ calls[t] <= MaxCallsTwo
    /\ loc[t].op # "none" =>
      /\ loc[t].start_pfn = 0
      /\ loc[t].end_pfn = NrFrames
      /\ loc[t].migratetype \in {"none", MIGRATE_MOVABLE}

NextTwo == \E t \in Procs : Step(t) /\ TwoArgs'

SpecTwo == Init /\ [][NextTwo]_vars

\* the steps of a call that is under way, its return included
Progress(t) ==
  \/ IsolateLoop(t)
  \/ IsolateUndo(t)
  \/ IsolateUndoAbsent(t)
  \/ UnsetLock(t)
  \/ UnsetBody(t)
  \/ UnsetUnlock(t)
  \/ UndoLoop(t)
  \/ TestLabels(t)
  \/ TestLock(t)
  \/ TestWalk(t)
  \/ TestUnlock(t)
  \/ Return(t)

\* two callers under fair scheduling: a caller that is inside a call keeps
\* running, and a caller that waits for the zone lock gets it if the lock
\* is free again and again
SpecLive ==
  /\ Init
  /\ [][NextTwo]_vars
  /\ \A t \in Procs : SF_vars(Progress(t))

TypeOK ==
  /\ pageblock_mt \in [Blocks -> MigrateTypes]
  /\ zone_lock \in {"free"} \cup Procs
  /\ \A f \in Frames : pages[f].st \in {"none", "buddy", "tail", "used", "freeing"}


\* ================================================================ claims
Caller == "cma"
Returned(op) == pc[Caller] = "done" /\ loc[Caller].op = op
CallBlocks == RangeBlocks(loc[Caller].start_pfn, loc[Caller].end_pfn)
HasValid(b) == \E f \in BlockFrames(b) : pfn_valid[f]
IsolateSet(mt) == {b \in Blocks : mt[b] = MIGRATE_ISOLATE}
\* the pageblocks before the rejected one
RolledBack == {b \in CallBlocks : BlockStart(b) < loc[Caller].undo_pfn}

\* C1, on ranges without absent frames: when isolate_range returns BUSY, the
\* set of pageblocks labelled ISOLATE is the set of before the call.
C1_AllOrNothing ==
  (/\ Returned("isolate")
   /\ loc[Caller].ret = 0 - EBUSY
   /\ \A b \in CallBlocks : \A f \in BlockFrames(b) : pfn_valid[f])
    => IsolateSet(pageblock_mt) = IsolateSet(pre[Caller].mt)

\* C2 as stated, on the pageblocks that the call flipped and rolled back
\* through the page of a valid frame: when isolate_range returns BUSY each of
\* them carries the label it had before the call.
C2_RollbackRestoresLabels ==
  (Returned("isolate") /\ loc[Caller].ret = 0 - EBUSY)
    => \A b \in RolledBack :
         (pfn_valid[BlockStart(b)] /\ pre[Caller].mt[b] # MIGRATE_ISOLATE)
           => pageblock_mt[b] = pre[Caller].mt[b]

\* C2, amended: when isolate_range(s, e, undo_mt, skip) returns BUSY, every
\* pageblock from the rejected one on and every pageblock without a valid
\* frame carries its label of before the call, and every pageblock before the
\* rejected one whose first frame is valid carries undo_mt.
C2_RollbackSetsUndoType ==
  (Returned("isolate") /\ loc[Caller].ret = 0 - EBUSY)
    => \A b \in CallBlocks :
         /\ (b \notin RolledBack \/ ~HasValid(b))
              => pageblock_mt[b] = pre[Caller].mt[b]
         /\ (b \in RolledBack /\ pfn_valid[BlockStart(b)])
              => pageblock_mt[b] = loc[Caller].migratetype

\* a rollback over a flipped pageblock whose label was not undo_mt
C2_Witness ==
  /\ Returned("isolate")
  /\ loc[Caller].ret = 0 - EBUSY
  /\ \E b \in RolledBack :
       /\ pfn_valid[BlockStart(b)]
       /\ pre[Caller].mt[b] = MIGRATE_MOVABLE
       /\ loc[Caller].migratetype = MIGRATE_CMA
       /\ pageblock_mt[b] = MIGRATE_CMA


\* C3: every pageblock of a range that isolate_range isolated with result 0,
\* and whose undo has not begun, has the label ISOLATE, whatever the
\* allocator does meanwhile.
C3_IsolatedStaysIsolate ==
  \A b \in isolated : pageblock_mt[b] = MIGRATE_ISOLATE

\* C3, amended: every pageblock of such a range that contains a valid frame
\* has the label ISOLATE; a pageblock without a valid frame is skipped and
\* keeps its label.
C3_IsolatedValidStaysIsolate ==
  \A b \in isolated : HasValid(b) => pageblock_mt[b] = MIGRATE_ISOLATE

\* the allocator has run after the isolation: a page freed meanwhile sits on
\* a free list of the isolated pageblock
C3_Witness ==
  /\ pc[Caller] = "idle"
  /\ \E b \in isolated :
       /\ pageblock_mt[b] = MIGRATE_ISOLATE
       /\ \E f \in BlockFrames(b) :
            PageBuddy(pages, f) /\ pages[f].list = MIGRATE_MOVABLE

\* C4: the allocator hands out no frame of a range that isolate_range
\* isolated with result 0 and whose undo has not begun.
C4_NoAllocFromIsolated == stolen = {}

\* a valid frame that test_range accepts
Accepted(f, skip) ==
  \/ \E h \in Heads(pages) :
       f \in Extent(pages, h) /\ get_freepage_migratetype(pages, h) = MIGRATE_ISOLATE
  \/ /\ ~PageBuddy(pages, f)
     /\ page_count(pages, f) = 0
     /\ get_freepage_migratetype(pages, f) = MIGRATE_ISOLATE
  \/ skip /\ f \in PageHWPoison

\* test_range is about to release the zone lock and to return 0
TestPasses ==
  /\ pc[Caller] = "test_unlock"
  /\ test_result(loc[Caller].pfn, loc[Caller].end_pfn) = 0

CallFrames == RangeFrames(loc[Caller].start_pfn, loc[Caller].end_pfn)

\* C5: when test_range releases the zone lock with result 0, every valid
\* frame of the range is part of a buddy extent with hint ISOLATE, or has
\* refcount 0 and hint ISOLATE, or is poisoned and skip_poisoned is set.
C5_TestZeroMeansIsolated ==
  TestPasses =>
    \A f \in CallFrames : pfn_valid[f] => Accepted(f, loc[Caller].skip)

\* a passing walk over a page whose free is in flight and over buddy extents
C5_Witness ==
  /\ TestPasses
  /\ \E f \in CallFrames : pages[f].st = "freeing"
  /\ \E f \in CallFrames : PageBuddy(pages, f)

\* C6: once test_range has returned, with 0 or with BUSY, no buddy extent of
\* the range is on a free list other than the ISOLATE list.
C6_AfterTestNoStray ==
  Returned("test") =>
    \A h \in Heads(pages) \cap CallFrames : pages[h].list = MIGRATE_ISOLATE

\* C6, amended: when test_range releases the zone lock with result 0, no
\* buddy extent of the range is on a free list other than the ISOLATE list.
C6_PassingTestNoStray ==
  TestPasses =>
    \A h \in Heads(pages) \cap CallFrames : pages[h].list = MIGRATE_ISOLATE

\* a passing walk that moved a stray extent
C6_Witness ==
  /\ TestPasses
  /\ loc[Caller].repaired # {}


\* the call that has returned follows a call `op' of the same caller on the
\* same range
Follows(op) ==
  /\ last[Caller].op = op
  /\ last[Caller].start_pfn = loc[Caller].start_pfn
  /\ last[Caller].end_pfn = loc[Caller].end_pfn

\* no buddy extent of the pageblocks of the range is on the ISOLATE list
NoneOnIsolateList ==
  \A b \in CallBlocks : \A h \in Heads(pages) \cap BlockFrames(b) :
     pages[h].list # MIGRATE_ISOLATE

\* the labels of the range are those of before the isolation
LabelsAsBefore ==
  \A b \in CallBlocks : pageblock_mt[b] = last[Caller].pre[b]

BeforeAll(mt) == \A b \in CallBlocks : last[Caller].pre[b] = mt

\* C7: after isolate_range(R) with result 0 and undo_range(R, M), every
\* pageblock of R has the label M and no free page of R is on the ISOLATE
\* list; if every pageblock of R had the label M before the isolation, the
\* labels are those of before the isolation.
C7_RoundTrip ==
  (Returned("undo") /\ Follows("isolate") /\ last[Caller].ret = 0)
    => /\ \A b \in CallBlocks : pageblock_mt[b] = loc[Caller].migratetype
       /\ NoneOnIsolateList
       /\ BeforeAll(loc[Caller].migratetype) => LabelsAsBefore

\* C7, amended: after isolate_range(R) with result 0 and undo_range(R, M),
\* every pageblock of R that contains a valid frame has the label M; if M is
\* not ISOLATE, no free page of R is on the ISOLATE list; if every pageblock
\* of R had the label M before the isolation, the labels are those of before
\* the isolation.
C7_RoundTripValid ==
  (Returned("undo") /\ Follows("isolate") /\ last[Caller].ret = 0)
    => /\ \A b \in CallBlocks :
            HasValid(b) => pageblock_mt[b] = loc[Caller].migratetype
       /\ loc[Caller].migratetype # MIGRATE_ISOLATE => NoneOnIsolateList
       /\ BeforeAll(loc[Caller].migratetype) => LabelsAsBefore

\* a round trip that changes the labels of a range with free pages and a hole
C7_Witness ==
  /\ Returned("undo") /\ Follows("isolate") /\ last[Caller].ret = 0
  /\ loc[Caller].migratetype = MIGRATE_CMA
  /\ \E f \in CallFrames : ~pfn_valid[f]
  /\ \E f \in CallFrames : PageBuddy(pages, f) /\ pages[f].list = MIGRATE_CMA

\* C8: undo_range(s, e, M) with M other than ISOLATE, called after
\* isolate_range on the same range, returns 0 and leaves no pageblock of the
\* range with the label ISOLATE.
C8_UndoClearsIsolate ==
  (/\ Returned("undo") /\ Follows("isolate")
   /\ loc[Caller].migratetype # MIGRATE_ISOLATE)
    => /\ loc[Caller].ret = 0
       /\ \A b \in CallBlocks : pageblock_mt[b] # MIGRATE_ISOLATE

\* an undo of a range of two pageblocks that the isolation had flipped
C8_Witness ==
  /\ Returned("undo") /\ Follows("isolate") /\ last[Caller].ret = 0
  /\ loc[Caller].migratetype # MIGRATE_ISOLATE
  /\ Cardinality(CallBlocks) > 1
  /\ \A b \in CallBlocks : HasValid(b) /\ last[Caller].pre[b] # MIGRATE_ISOLATE

\* the call that has returned repeats the previous call of the caller, and
\* the allocator has not run since that call returned
Repeats(op) ==
  /\ Follows(op)
  /\ last[Caller].migratetype = loc[Caller].migratetype
  /\ last[Caller].quiet

\* C9: a second undo_range(s, e, M) right after the first leaves the labels,
\* the free lists, the hints and the free-page counters as the first left
\* them.
C9_UndoIdempotent ==
  (Returned("undo") /\ Repeats("undo"))
    => <<pageblock_mt, pages, nr_free>> = last[Caller].snap

\* C9, amended: the same for every target type M other than ISOLATE.
C9_UndoIdempotentNotIsolate ==
  (/\ Returned("undo") /\ Repeats("undo")
   /\ loc[Caller].migratetype # MIGRATE_ISOLATE)
    => <<pageblock_mt, pages, nr_free>> = last[Caller].snap

\* the first undo gave an isolated pageblock with free pages back
C9_Witness ==
  /\ Returned("undo") /\ Repeats("undo")
  /\ loc[Caller].migratetype # MIGRATE_ISOLATE
  /\ \E b \in CallBlocks :
       /\ last[Caller].pre[b] = MIGRATE_ISOLATE
       /\ \E h \in Heads(pages) \cap BlockFrames(b) :
            pages[h].list = loc[Caller].migratetype

\* the range of the call is empty, or holds absent frames only
EmptyRange == loc[Caller].start_pfn = loc[Caller].end_pfn
AbsentRange == ~EmptyRange /\ \A f \in CallFrames : ~pfn_valid[f]
ZoneAsBeforeCall ==
  /\ pageblock_mt = pre[Caller].mt
  /\ pages = pre[Caller].pages
  /\ nr_free = pre[Caller].nr
  /\ zone_lock = "free"

\* C10: on an empty range each of the three operations changes no state; on
\* a range of absent frames only each of them changes no state and
\* returns 0.
C10_Boundary ==
  (pc[Caller] = "done")
    => /\ (EmptyRange \/ AbsentRange) => ZoneAsBeforeCall
       /\ AbsentRange => loc[Caller].ret = 0

\* C10, amended: on an empty range and on a range of absent frames only,
\* each of the three operations changes no state; isolate_range and
\* undo_range return 0 and test_range returns BUSY.
C10_BoundaryTestBusy ==
  (pc[Caller] = "done" /\ (EmptyRange \/ AbsentRange))
    => /\ ZoneAsBeforeCall
       /\ loc[Caller].ret = IF loc[Caller].op = "test" THEN 0 - EBUSY ELSE 0

\* test_range has returned from a range of absent frames only
C10_Witness ==
  /\ Returned("test")
  /\ AbsentRange
  /\ loc[Caller].ret = 0 - EBUSY

\* the frame is part of a buddy extent
InBuddy(f) == \E h \in Heads(pages) : f \in Extent(pages, h)

\* a valid frame that stops the walk of test_range
Offending(f, skip) ==
  /\ pfn_valid[f]
  /\ ~InBuddy(f)
  /\ ~(page_count(pages, f) = 0
         /\ get_freepage_migratetype(pages, f) = MIGRATE_ISOLATE)
  /\ ~(skip /\ f \in PageHWPoison)

Offenders == {f \in CallFrames : Offending(f, loc[Caller].skip)}
FirstOffender == IF Offenders = {} THEN NULL ELSE Min(Offenders)

\* the call of test_range took the zone lock and walked the range
Walked == loc[Caller].page # NULL

AllFreeOn(pg, lab, mt) ==
  /\ ~EmptyRange
  /\ \A b \in CallBlocks : lab[b] = mt
  /\ \A f \in CallFrames :
       /\ pfn_valid[f]
       /\ \E h \in Heads(pg) : f \in Extent(pg, h) /\ pg[h].list = mt

\* the previous call of the caller was isolate_range on this range, nothing
\* ran since, and its range was all free on the list of mt
AfterIsolateOfFree(mt) ==
  /\ Follows("isolate") /\ last[Caller].quiet
  /\ mt # MIGRATE_ISOLATE
  /\ AllFreeOn(last[Caller].pre_pages, last[Caller].pre, mt)

\* C12: when all frames of a range are free on the list of type M,
\* isolate_range returns 0, moves all of them to the ISOLATE list, labels the
\* pageblocks ISOLATE and lowers M's counter by the number of frames of the
\* range; test_range then returns 0 and changes nothing; undo_range(range, M)
\* then puts the pages back on M's list and restores the counters and the
\* labels of before the isolation.
C12_CounterRoundTrip ==
  \A mt \in MigrateTypes \ {MIGRATE_ISOLATE} :
    /\ (Returned("isolate") /\ AllFreeOn(pre[Caller].pages, pre[Caller].mt, mt))
         => /\ loc[Caller].ret = 0
            /\ \A b \in CallBlocks : pageblock_mt[b] = MIGRATE_ISOLATE
            /\ AllFreeOn(pages, pageblock_mt, MIGRATE_ISOLATE)
            /\ \A h \in Heads(pages) \cap CallFrames :
                 get_freepage_migratetype(pages, h) = MIGRATE_ISOLATE
            /\ nr_free = __mod_zone_freepage_state(
                           pre[Caller].nr, 0 - Cardinality(CallFrames), mt)
    /\ (Returned("test") /\ AfterIsolateOfFree(mt))
         => /\ loc[Caller].ret = 0
            /\ <<pageblock_mt, pages, nr_free>> = last[Caller].snap
    /\ (Returned("undo") /\ AfterIsolateOfFree(mt)
           /\ loc[Caller].migratetype = mt)
         => /\ loc[Caller].ret = 0
            /\ pageblock_mt = last[Caller].pre
            /\ pages = last[Caller].pre_pages
            /\ nr_free = last[Caller].pre_nr

\* the undo of an isolated range of two pageblocks that was all free
C12_Witness ==
  /\ Returned("undo") /\ AfterIsolateOfFree(MIGRATE_MOVABLE)
  /\ loc[Caller].migratetype = MIGRATE_MOVABLE
  /\ Cardinality(CallBlocks) = NrBlocks
  /\ nr_free[MIGRATE_MOVABLE] = NrFrames
  /\ last[Caller].snap[3][MIGRATE_MOVABLE] = 0

\* the counters of the types other than ISOLATE count the frames of the lists
CountersMatch(nr, pg) ==
  \A mt \in MigrateTypes \ {MIGRATE_ISOLATE} : nr[mt] = OnList(pg, mt)

\* C13, in the states of a call of test_range that began with counters that
\* matched the lists: whenever the zone lock is not held, the free-page
\* counter of each migration type other than ISOLATE equals the number of
\* free frames on the free lists of that type.
C13_CountersMatchLists ==
  (/\ zone_lock = "free"
   /\ loc[Caller].op = "test"
   /\ CountersMatch(pre[Caller].nr, pre[Caller].pages))
    => CountersMatch(nr_free, pages)

\* C14: whenever the zone lock is not held, no free extent of a pageblock
\* whose label is not ISOLATE sits on the ISOLATE free list, under any
\* interleaving of test_range with an undo_range or a failing isolate_range
\* of another caller on the same range.
C14_NoStrandedFree ==
  zone_lock = "free" =>
    \A h \in Heads(pages) :
      pages[h].list = MIGRATE_ISOLATE
        => pageblock_mt[BlockOf(h)] = MIGRATE_ISOLATE

\* C15: the page that isolate_range's rollback and undo_range hand to
\* unset_isolate is the page of a valid frame, the first valid frame of its
\* pageblock.
C15_UnsetPageValid ==
  pc[Caller] \in {"unset_lock", "unset_body", "unset_unlock"} =>
    /\ pfn_valid[loc[Caller].page]
    /\ loc[Caller].page =
         __first_valid_page(BlockStart(BlockOf(loc[Caller].page)),
                            pageblock_nr_pages)

\* the positions inside a critical section of unset_isolate and test_range
InCritical(t) ==
  pc[t] \in {"unset_body", "unset_unlock", "test_walk", "test_unlock"}

\* the step is one of caller t
Moves(t) == pc'[t] # pc[t] \/ loc'[t] # loc[t]

\* C16: the zone lock is held by a caller exactly while that caller is inside
\* the critical section of unset_isolate or of test_range's walk, so at most
\* one caller is inside and the lock is free when none is (it is released on
\* every return path); and every step of unset_isolate and of the walk that
\* writes a pageblock label or moves a free page is taken by the holder of
\* the lock, who keeps it.
C16_LockDiscipline ==
  /\ [](\A t \in Procs : InCritical(t) <=> zone_lock = t)
  /\ [][\A t \in Procs :
          (/\ Moves(t)
           /\ pc[t] \in {"unset_lock", "unset_body", "unset_unlock",
                          "test_lock", "test_walk", "test_unlock"}
           /\ (pageblock_mt' # pageblock_mt \/ pages' # pages
                 \/ nr_free' # nr_free))
            => (zone_lock = t /\ zone_lock' = t)]_vars

\* a walk has repaired an extent under the lock while the other caller waits
\* for the lock in unset_isolate
C16_Witness ==
  /\ pc[Caller] = "test_walk"
  /\ zone_lock = Caller
  /\ loc[Caller].repaired # {}
  /\ pc["hotplug"] = "unset_lock"

\* the label check of caller t reads, in this step, a label other than
\* ISOLATE
ReadsOtherLabel(t) ==
  LET page == __first_valid_page(loc[t].pfn, pageblock_nr_pages) IN
  /\ pc[t] = "test_labels"
  /\ Moves(t)
  /\ loc[t].pfn < loc[t].end_pfn
  /\ page # NULL
  /\ get_pageblock_migratetype(page) # MIGRATE_ISOLATE

\* C17: when the label check of test_range reads a pageblock label other
\* than ISOLATE, the call returns BUSY at once: it does not take the zone
\* lock, moves no free page, changes no hint, label or counter and does not
\* write the out-parameter.
C17_LabelCheckBusy ==
  [][\A t \in Procs :
       ReadsOtherLabel(t)
         => /\ pc'[t] = "done"
            /\ loc'[t].ret = 0 - EBUSY
            /\ loc'[t].failed_pfn = NULL
            /\ loc'[t].repaired = {}
            /\ UNCHANGED <<pageblock_mt, pages, nr_free, zone_lock>>]_vars

\* test_range has returned BUSY from the label check of its second
\* pageblock, without walking
C17_Witness ==
  /\ Returned("test")
  /\ ~Walked
  /\ loc[Caller].ret = 0 - EBUSY
  /\ loc[Caller].pfn > loc[Caller].start_pfn
  /\ loc[Caller].pfn < loc[Caller].end_pfn
  /\ get_pageblock_migratetype(loc[Caller].pfn) # MIGRATE_ISOLATE
  /\ zone_lock = "free"

\* no free extent of pageblock b is on the ISOLATE list in pg
NoneIsolated(pg, b) ==
  \A h \in Heads(pg) \cap BlockFrames(b) : pg[h].list # MIGRATE_ISOLATE

\* C18: the step of unset_isolate(page, M) under the zone lock leaves labels,
\* free lists, hints and counters unchanged when the label of the pageblock
\* is not ISOLATE at that moment; otherwise that one step, taken by the
\* holder of the lock, moves the free pages of the pageblock to M's list,
\* adds the moved count to M's counter and sets the label M, and the step
\* that releases the lock changes nothing more.  So the state with the label
\* M and pages of the pageblock still on the ISOLATE list is never seen with
\* the lock free.
C18_UnsetRechecks ==
  /\ [][\A t \in Procs :
          (pc[t] = "unset_body" /\ Moves(t)) =>
            LET page == loc[t].page
                b == BlockOf(page)
                M == loc[t].migratetype
            IN IF pageblock_mt[b] # MIGRATE_ISOLATE
               THEN UNCHANGED <<pageblock_mt, pages, nr_free>>
               ELSE /\ zone_lock = t /\ zone_lock' = t
                    /\ pageblock_mt' = [pageblock_mt EXCEPT ![b] = M]
                    /\ pages' = move_freepages_block(pages, page, M)
                    /\ nr_free' = [nr_free EXCEPT ![M] =
                                     @ + move_freepages_block_count(pages, page)]
                    /\ M # MIGRATE_ISOLATE => NoneIsolated(pages', b)]_vars
  /\ [][\A t \in Procs :
          (pc[t] = "unset_unlock" /\ Moves(t))
            => /\ zone_lock = t /\ zone_lock' = "free"
               /\ UNCHANGED <<pageblock_mt, pages, nr_free>>]_vars
  /\ [](\A t \in Procs :
          (pc[t] = "unset_body") => zone_lock = t)

\* undo_range passed its lock-free check, the undo_range of the other caller
\* flipped the label, and unset_isolate now holds the lock on a pageblock
\* that is no longer ISOLATE
C18_Witness ==
  /\ pc[Caller] = "unset_body"
  /\ loc[Caller].op = "undo"
  /\ zone_lock = Caller
  /\ get_pageblock_migratetype(loc[Caller].page) = MIGRATE_MOVABLE
  /\ loc["hotplug"].op = "undo"
  /\ pre[Caller].mt[BlockOf(loc[Caller].page)] = MIGRATE_ISOLATE

\* the walk of caller t stands, in this step, on a buddy extent whose hint
\* is not ISOLATE
MeetsStray(t) ==
  /\ pc[t] = "test_walk"
  /\ Moves(t)
  /\ loc[t].pfn < loc[t].end_pfn
  /\ pfn_valid[loc[t].pfn]
  /\ PageBuddy(pages, loc[t].pfn)
  /\ get_freepage_migratetype(pages, loc[t].pfn) # MIGRATE_ISOLATE

\* C19: when the walk of test_range, holding the zone lock, meets a buddy
\* extent of order k whose hint is not ISOLATE, that step puts the extent
\* page .. page + 2^k - 1 on the ISOLATE list with hint ISOLATE, changes no
\* other page, no label and no counter, advances by 2^k and stays in the
\* walk; and a walk that meets no offending frame returns 0, repaired
\* extents included.
C19_StrayRepair ==
  /\ [][\A t \in Procs :
          MeetsStray(t) =>
            LET page == loc[t].pfn
                k == page_order(pages, page)
            IN /\ zone_lock = t /\ zone_lock' = t
               /\ pages' = [pages EXCEPT ![page].list = MIGRATE_ISOLATE,
                                          ![page].mt = MIGRATE_ISOLATE]
               /\ Extent(pages', page) = page .. (page + 2 ^ k - 1)
               /\ UNCHANGED <<pageblock_mt, nr_free>>
               /\ loc'[t].pfn = page + 2 ^ k
               /\ pc'[t] = "test_walk"]_vars
  /\ []((Returned("test") /\ Walked /\ Offenders = {})
          => loc[Caller].ret = 0)

\* the walk has repaired a stray extent of order pageblock_order and goes on
C19_Witness ==
  /\ pc[Caller] = "test_walk"
  /\ \E h \in loc[Caller].repaired :
       /\ page_order(pages, h) = pageblock_order
       /\ pages[h].list = MIGRATE_ISOLATE
       /\ get_freepage_migratetype(pages, h) = MIGRATE_ISOLATE
       /\ loc[Caller].pfn = h + pageblock_nr_pages

\* the positions of the loops of the three operations
LoopPositions == {"isolate_loop", "isolate_undo", "undo_loop", "test_labels",
                  "test_walk"}

\* C20: every call of isolate_range, undo_range and test_range that is under
\* way reaches its return, with result 0 or BUSY, when callers that can run
\* keep running and a caller that waits for the zone lock gets it; every
\* iteration that stays in a loop, and every return from unset_isolate into
\* the loop that called it, has advanced the frame number by at least 1.
C20_Terminates ==
  /\ \A t \in Procs :
       [](pc[t] # "idle"
            => <>(pc[t] = "done" /\ loc[t].ret \in {0, 0 - EBUSY}))
  /\ [][\A t \in Procs :
          (/\ Moves(t)
           /\ pc'[t] \in LoopPositions
           /\ pc[t] \in {pc'[t], "unset_unlock"})
            => loc'[t].pfn >= loc[t].pfn + 1]_vars

\* a caller waits for the zone lock while the walk of the other holds it
C20_Witness ==
  /\ pc[Caller] = "unset_lock"
  /\ pc["hotplug"] = "test_walk"
  /\ zone_lock = "hotplug"
  /\ loc["hotplug"].pfn > loc["hotplug"].start_pfn

=============================================================================
